---- MODULE Spec2Model ----
(***************************************************************************)
(* Model of src/main.py (Quran Verse Daily Poster).  One scheduled         *)
(* invocation of run_once is a sequence of steps                           *)
(*   load_state -> check override -> compute_next_verse -> fetch_verse     *)
(*   -> post_to_telegram / save_state -> save_run_log                      *)
(* over the state file, the Telegram chat and the Quran API.  Every        *)
(* external call (HTTP, file system, OCR, Gemini) is a nondeterministic    *)
(* choice over the outcomes the code distinguishes.                        *)
(***************************************************************************)
EXTENDS Integers, Sequences, FiniteSets, TLC

(* ---------------- bounds ---------------- *)
MaxRuns == 2        \* scheduled invocations explored
MaxTotal == 2       \* largest ayah count the surah lookup answers with
MaxAyah == 3        \* largest current ayah drawn for compute_next_verse

(* ---------------- program constants ---------------- *)
NumSurahs == 114

None == <<>>        \* Python None for Optional[Tuple] / Optional[Dict]
NoText == <<>>      \* msg_text that is None or ""
NoMatch == <<>>     \* re.search returned None

(* ---------------- JSON values ---------------- *)
JInt(n) == [t |-> "int", v |-> n]
JMissing == [t |-> "missing", v |-> 0]      \* key not in the dict
JNull == [t |-> "null", v |-> 0]            \* int(None) raises TypeError
JStr == [t |-> "str", v |-> 0]              \* int("abc") raises ValueError

(* ---------------- state file ---------------- *)
FileAbsent == [kind |-> "absent", last_surah |-> JMissing, last_ayah |-> JMissing]
FileUnreadable == [kind |-> "unreadable", last_surah |-> JMissing, last_ayah |-> JMissing]
FileBadJson == [kind |-> "badjson", last_surah |-> JMissing, last_ayah |-> JMissing]
FileNonObject == [kind |-> "nonobject", last_surah |-> JMissing, last_ayah |-> JMissing]
FileObject(s, a) == [kind |-> "object", last_surah |-> s, last_ayah |-> a]
FileRecord(surah, ayah) == FileObject(JInt(surah), JInt(ayah))

\* load_state: the dict json.load returns, or the default on absence / error.
\* A JSON document that is not an object is returned as it is.
load_state(file) ==
    IF file.kind \in {"absent", "unreadable", "badjson"}
    THEN FileRecord(1, 0)
    ELSE file

\* state.get(key, default) followed by int(...): TRUE when int() raises.
IntRaises(j) == j.t \in {"null", "str"}
IntOf(j, default) == IF j.t = "missing" THEN default ELSE j.v

\* Lines 283-284 raise when the loaded value has no .get or int() fails.
LoadRaises(state) ==
    \/ state.kind = "nonobject"
    \/ IntRaises(state.last_surah)
    \/ IntRaises(state.last_ayah)

\* save_state outcomes: the write succeeds, open() raises (file untouched),
\* or the write fails after open(..., 'w') truncated the file.
SaveOutcomes == {"ok", "open_failed", "write_failed"}
save_state(file, surah, ayah, outcome) ==
    CASE outcome = "ok" -> FileRecord(surah, ayah)
      [] outcome = "open_failed" -> file
      [] outcome = "write_failed" -> FileBadJson

(* ---------------- verse reference resolver ---------------- *)
Digits == {"0", "1", "2", "3", "4", "5", "6", "7", "8", "9"}
DigitVal(c) ==
    CASE c = "0" -> 0 [] c = "1" -> 1 [] c = "2" -> 2 [] c = "3" -> 3
      [] c = "4" -> 4 [] c = "5" -> 5 [] c = "6" -> 6 [] c = "7" -> 7
      [] c = "8" -> 8 [] c = "9" -> 9

\* int(match.group(i)): raises ValueError unless every character is a digit.
IsNumeric(tok) == Len(tok) > 0 /\ \A i \in 1..Len(tok) : tok[i] \in Digits
RECURSIVE ToInt(_)
ToInt(tok) ==
    IF Len(tok) = 0 THEN 0
    ELSE 10 * ToInt(SubSeq(tok, 1, Len(tok) - 1)) + DigitVal(tok[Len(tok)])

\* A text is the result of re.search for each of the three patterns, in
\* order: NoMatch or the two captured groups.
RECURSIVE ParseFrom(_, _)
ParseFrom(text, i) ==
    IF i > Len(text) THEN None
    ELSE LET m == text[i] IN
         IF m = NoMatch THEN ParseFrom(text, i + 1)
         ELSE IF ~IsNumeric(m[1]) \/ ~IsNumeric(m[2]) THEN ParseFrom(text, i + 1)
         ELSE LET surah == ToInt(m[1])
                  ayah == ToInt(m[2])
              IN IF 1 <= surah /\ surah <= NumSurahs /\ ayah >= 1
                 THEN <<surah, ayah>>
                 ELSE ParseFrom(text, i + 1)

parse_verse_locally(text) == ParseFrom(text, 1)

\* Gemini answers: the call raises, the response has no text, the text does
\* not validate, or it carries surah / ayah (int or null).
GeminiError == [kind |-> "error", surah |-> JNull, ayah |-> JNull]
GeminiEmpty == [kind |-> "empty", surah |-> JNull, ayah |-> JNull]
GeminiMalformed == [kind |-> "malformed", surah |-> JNull, ayah |-> JNull]
GeminiData(s, a) == [kind |-> "data", surah |-> s, ayah |-> a]

Truthy(j) == j.t = "int" /\ j.v # 0

identify_verse_with_gemini(has_gemini, client, answer) ==
    IF ~has_gemini \/ ~client THEN None
    ELSE IF answer.kind # "data" THEN None
    ELSE IF Truthy(answer.surah) /\ Truthy(answer.ayah)
         THEN <<answer.surah.v, answer.ayah.v>>
         ELSE None

(* ---------------- verse progression ---------------- *)
\* What get_surah_info returned: None, or the dict's relevant keys.
SurahInfo(n1, n2, n3, l) ==
    [numberOfAyahs |-> n1, number_of_ayahs |-> n2, ayahs_count |-> n3, ayahs |-> l]

\* Lines 220-230: first key whose value converts with int(), else len(ayahs).
\* The result is <<>> when total_ayahs stays None, else <<total>>.
total_ayahs(info) ==
    IF info.numberOfAyahs.t = "int" THEN <<info.numberOfAyahs.v>>
    ELSE IF info.number_of_ayahs.t = "int" THEN <<info.number_of_ayahs.v>>
    ELSE IF info.ayahs_count.t = "int" THEN <<info.ayahs_count.v>>
    ELSE IF info.ayahs.t = "int" THEN <<info.ayahs.v>>
    ELSE None

\* Mutant: the last ayah of a surah is followed by ayah total + 1.
compute_next_verse_le(current_surah, current_ayah, surah_info) ==
    IF surah_info = None THEN <<current_surah, current_ayah + 1>>
    ELSE LET total == total_ayahs(surah_info[1]) IN
         IF total = None THEN <<current_surah, current_ayah + 1>>
         ELSE IF current_ayah <= total[1]
              THEN <<current_surah, current_ayah + 1>>
              ELSE <<(current_surah % NumSurahs) + 1, 1>>

compute_next_verse(current_surah, current_ayah, surah_info) ==
    IF surah_info = None THEN <<current_surah, current_ayah + 1>>
    ELSE LET total == total_ayahs(surah_info[1]) IN
         IF total = None THEN <<current_surah, current_ayah + 1>>
         ELSE IF current_ayah < total[1]
              THEN <<current_surah, current_ayah + 1>>
              ELSE <<(current_surah % NumSurahs) + 1, 1>>

(* ---------------- external calls ---------------- *)
get_latest_telegram_message(cfg, request_ok, chat) ==
    IF ~cfg THEN None
    ELSE IF ~request_ok THEN None
    ELSE chat

\* The HTTP requests get_latest_telegram_message / extract_text_from_image send.
OverrideRequests(cfg, msg) ==
    IF ~cfg THEN {}
    ELSE IF msg # None /\ msg[1].kind = "photo" THEN {"getUpdates", "getFile"}
    ELSE {"getUpdates"}

\* Lines 290-303: text, else caption, else OCR of the largest photo.
msg_text(msg, ocr) ==
    IF msg = None THEN NoText
    ELSE CASE msg[1].kind \in {"text", "caption"} -> msg[1].text
           [] msg[1].kind = "photo" -> ocr
           [] OTHER -> NoText

\* Mutant: the resolved reference is logged but the stored position is kept.
apply_override_keep(position, info) == position

\* Lines 309-311: a resolved reference replaces the current position.
apply_override(position, info) == IF info # None THEN info ELSE position

\* fetch_verse: None on a request error or an unrecognized shape; the data
\* otherwise.  An empty data object is falsy for the caller.
FetchOutcomes == {"error", "unrecognized", "empty_data", "envelope", "flat"}
fetch_verse(outcome) == outcome \in {"envelope", "flat"}

\* Mutant: the credentials are not checked before the request.
post_to_telegram_nocheck(cfg, outcome) == outcome = "ok"

\* post_to_telegram: False without credentials (no request), on a request
\* error, and when Telegram answers ok = false.
PostOutcomes == {"error", "not_ok", "ok"}
post_to_telegram(cfg, outcome) == cfg /\ outcome = "ok"

(* ---------------- inputs ---------------- *)
Tok1(a) == <<a>>
Tok3(a, b, c) == <<a, b, c>>
Match(g1, g2) == <<g1, g2>>

\* "2:1": the shorthand pattern gives (2, 1).
TextColon == <<NoMatch, Match(Tok1("2"), Tok1("1")), NoMatch>>
\* "sura 114 aya 2" with the Arabic keywords: the first pattern gives (114, 2).
TextKeyword == <<Match(Tok3("1", "1", "4"), Tok1("2")), NoMatch,
                 Match(Tok1("x"), Tok3("1", "1", "4"))>>
\* "120:5": surah out of range, nothing else matches.
TextOutOfRange == <<NoMatch, Match(Tok3("1", "2", "0"), Tok1("5")), NoMatch>>
\* "<name> 5": only the last pattern matches and its first group is a word.
TextName == <<NoMatch, NoMatch, Match(Tok1("x"), Tok1("5"))>>
\* "2 3 0:5": the shorthand gives (0, 5), rejected; the last pattern gives (2, 3).
TextFallback == <<NoMatch, Match(Tok1("0"), Tok1("5")), Match(Tok1("2"), Tok1("3"))>>

Texts == {TextColon, TextKeyword, TextOutOfRange, TextName, TextFallback}
OcrResults == {NoText, TextColon, TextOutOfRange}

Msg(kind, text) == [kind |-> kind, text |-> text]
Inbox ==
    {None}
      \cup {<<Msg("text", t)>> : t \in Texts \cup {NoText}}
      \cup {<<Msg("caption", TextKeyword)>>, <<Msg("photo", NoText)>>,
            <<Msg("other", NoText)>>}

GeminiAnswers ==
    {GeminiError, GeminiEmpty, GeminiMalformed,
     GeminiData(JNull, JNull), GeminiData(JInt(2), JInt(0)),
     GeminiData(JInt(2), JInt(1)), GeminiData(JInt(115), JInt(1)),
     GeminiData(JInt(2), JInt(-1))}

Totals == 0..MaxTotal
InfoShapes == {"numberOfAyahs", "number_of_ayahs", "ayahs_count", "ayahs"}
\* A lookup answer that carries the count T under one of the tolerated keys;
\* the keys tried before it hold values int() rejects.
MakeInfo(shape, T) ==
    CASE shape = "numberOfAyahs" -> SurahInfo(JInt(T), JMissing, JMissing, JMissing)
      [] shape = "number_of_ayahs" -> SurahInfo(JMissing, JInt(T), JMissing, JMissing)
      [] shape = "ayahs_count" -> SurahInfo(JNull, JStr, JInt(T), JMissing)
      [] shape = "ayahs" -> SurahInfo(JMissing, JNull, JMissing, JInt(T))
InfoNoCount == SurahInfo(JMissing, JNull, JMissing, JMissing)
SurahInfos ==
    {None, <<InfoNoCount>>}
      \cup {<<MakeInfo(sh, T)>> : sh \in InfoShapes, T \in Totals}
\* The lookup answers explored inside a run.
RunSurahInfos ==
    {None, <<InfoNoCount>>}
      \cup {<<MakeInfo("numberOfAyahs", T)>> : T \in Totals}

InitFiles ==
    {FileAbsent, FileUnreadable, FileBadJson, FileNonObject,
     FileRecord(1, 0), FileRecord(2, 1), FileRecord(114, 2),
     FileObject(JInt(2), JMissing), FileObject(JMissing, JInt(1)),
     FileObject(JStr, JInt(1)), FileObject(JInt(2), JNull)}

(* ---------------- state ---------------- *)
VARIABLES
    configured,     \* TELEGRAM_BOT_TOKEN and TELEGRAM_CHAT_ID are both set
    HAS_GEMINI,     \* the google-genai import succeeded
    gemini_client,  \* a Gemini client was constructed
    stateFile,      \* content of state.json
    pc,             \* position inside run_once
    runs,           \* invocations started
    current,        \* (current_surah, current_ayah)
    message,        \* what get_latest_telegram_message returned
    verse_info,     \* the resolver's result
    surah_info,     \* what get_surah_info returned
    next,           \* (next_surah, next_ayah)
    posted,         \* result of post_to_telegram
    saved,          \* save_state wrote the file
    run_log,        \* run_log['steps']
    success,        \* run_log['success']
    calls,          \* functions of the pipeline entered in this run
    http,           \* endpoints requested in this run
    fileAtStart,    \* content of state.json when the run began
    prev            \* the previous run, when it published an override and saved it

vars == <<configured, HAS_GEMINI, gemini_client, stateFile, pc, runs, current,
          message, verse_info, surah_info, next, posted, saved, run_log,
          success, calls, http, fileAtStart, prev>>

config == <<configured, HAS_GEMINI, gemini_client>>
locals == <<current, message, verse_info, surah_info, next, posted, saved,
            run_log, success, calls, http, fileAtStart>>

Step(name, surah, ayah) == [step |-> name, surah |-> surah, ayah |-> ayah]
NoPair == <<0, 0>>
NoRun == [posted |-> FALSE, saved |-> FALSE, message |-> None,
          verse_info |-> None, surah_info |-> None, next |-> NoPair]

\* Mutant: a text already applied by the previous run is not resolved again.
resolve_dedup(text, has_gemini, client, answer) ==
    IF text = NoText THEN None
    ELSE IF prev # NoRun /\ prev.message[1].text = text THEN None
    ELSE LET local == parse_verse_locally(text) IN
         IF local = None /\ has_gemini
         THEN identify_verse_with_gemini(has_gemini, client, answer)
         ELSE local

\* Lines 304-309: local patterns first, Gemini when they find nothing.
resolve(text, has_gemini, client, answer) ==
    IF text = NoText THEN None
    ELSE LET local == parse_verse_locally(text) IN
         IF local = None /\ has_gemini
         THEN identify_verse_with_gemini(has_gemini, client, answer)
         ELSE local

InitLocals ==
    /\ current = NoPair
    /\ message = None
    /\ verse_info = None
    /\ surah_info = None
    /\ next = NoPair
    /\ posted = FALSE
    /\ saved = FALSE
    /\ run_log = <<>>
    /\ success = FALSE
    /\ calls = {}
    /\ http = {}

Init ==
    /\ configured \in BOOLEAN
    /\ HAS_GEMINI \in BOOLEAN
    /\ gemini_client \in BOOLEAN
    /\ gemini_client => HAS_GEMINI
    /\ stateFile \in InitFiles
    /\ fileAtStart = stateFile
    /\ pc = "idle"
    /\ runs = 0
    /\ prev = NoRun
    /\ InitLocals

(* ---------------- run_once ---------------- *)
\* Lines 279-285.
LoadState ==
    /\ pc = "idle"
    /\ runs < MaxRuns
    /\ runs' = runs + 1
    /\ fileAtStart' = stateFile
    /\ calls' = {"load_state"}
    /\ LET state == load_state(stateFile) IN
       IF LoadRaises(state)
       THEN /\ pc' = "crashed"
            /\ UNCHANGED <<current, run_log>>
       ELSE LET s == IntOf(state.last_surah, 1)
                a == IntOf(state.last_ayah, 0)
            IN /\ current' = <<s, a>>
               /\ run_log' = <<Step("loaded_state", s, a)>>
               /\ pc' = "override"
    /\ UNCHANGED <<config, stateFile, message, verse_info, surah_info, next,
                   posted, saved, success, http, prev>>

\* Lines 287-312.
CheckOverride ==
    /\ pc = "override"
    /\ \E chat \in Inbox, request_ok \in BOOLEAN, ocr \in OcrResults,
          answer \in GeminiAnswers :
         LET msg == get_latest_telegram_message(configured, request_ok, chat)
             text == msg_text(msg, ocr)
             info == resolve(text, HAS_GEMINI, gemini_client, answer)
         IN /\ message' = msg
            /\ verse_info' = info
            /\ http' = http \cup OverrideRequests(configured, msg)
            /\ calls' = calls \cup {"get_latest_telegram_message"}
                          \cup (IF text # NoText THEN {"parse_verse_locally"} ELSE {})
            /\ current' = apply_override(current, info)
            /\ run_log' =
                 run_log
                   \o (IF text # NoText THEN <<Step("telegram_message_text", 0, 0)>> ELSE <<>>)
                   \o (IF info # None
                       THEN <<Step("updated_from_telegram", info[1], info[2])>>
                       ELSE <<>>)
    /\ pc' = "compute"
    /\ UNCHANGED <<config, stateFile, runs, surah_info, next, posted, saved,
                   success, fileAtStart, prev>>

\* Lines 314-316.
ComputeNext ==
    /\ pc = "compute"
    /\ \E info \in RunSurahInfos :
         /\ surah_info' = info
         /\ next' = compute_next_verse(current[1], current[2], info)
    /\ calls' = calls \cup {"compute_next_verse", "get_surah_info"}
    /\ http' = http \cup {"surah"}
    /\ run_log' = Append(run_log, Step("next_verse_computed", next'[1], next'[2]))
    /\ pc' = "fetch"
    /\ UNCHANGED <<config, stateFile, runs, current, message, verse_info, posted,
                   saved, success, fileAtStart, prev>>

\* Mutant: a failed fetch is logged but the run goes on to publish.
FetchVerse_Continue ==
    /\ pc = "fetch"
    /\ http' = http \cup {"ayah"}
    /\ \E outcome \in FetchOutcomes :
         IF fetch_verse(outcome)
         THEN run_log' = Append(run_log, Step("prepared_message", 0, 0))
         ELSE run_log' = Append(run_log, Step("fetch_verse_failed", 0, 0))
    /\ calls' = calls \cup {"fetch_verse"}
    /\ pc' = "publish"
    /\ UNCHANGED <<config, stateFile, runs, current, message, verse_info,
                   surah_info, next, posted, saved, success, fileAtStart, prev>>

\* Lines 318-339.
FetchVerse ==
    /\ pc = "fetch"
    /\ http' = http \cup {"ayah"}
    /\ \E outcome \in FetchOutcomes :
         IF fetch_verse(outcome)
         THEN /\ run_log' = Append(run_log, Step("prepared_message", 0, 0))
              /\ calls' = calls \cup {"fetch_verse"}
              /\ pc' = "publish"
         ELSE /\ run_log' = Append(run_log, Step("fetch_verse_failed", 0, 0))
              /\ calls' = calls \cup {"fetch_verse", "save_run_log"}
              /\ pc' = "done"
    /\ UNCHANGED <<config, stateFile, runs, current, message, verse_info,
                   surah_info, next, posted, saved, success, fileAtStart, prev>>

\* Mutant: save_state is called whatever post_to_telegram returned.
Publish_SaveAlways ==
    /\ pc = "publish"
    /\ \E outcome \in PostOutcomes, write \in SaveOutcomes :
         /\ posted' = post_to_telegram(configured, outcome)
         /\ stateFile' = save_state(stateFile, next[1], next[2], write)
         /\ saved' = (write = "ok")
         /\ success' = posted'
         /\ run_log' = Append(run_log,
                IF posted' THEN Step("posted_to_telegram", next[1], next[2])
                ELSE Step("telegram_post_failed", 0, 0))
         /\ calls' = calls \cup {"post_to_telegram", "save_state", "save_run_log"}
    /\ http' = http \cup (IF configured THEN {"sendMessage"} ELSE {})
    /\ pc' = "done"
    /\ UNCHANGED <<config, runs, current, message, verse_info, surah_info, next,
                   fileAtStart, prev>>

\* Lines 341-356.
Publish ==
    /\ pc = "publish"
    /\ \E outcome \in PostOutcomes, write \in SaveOutcomes :
         /\ posted' = post_to_telegram(configured, outcome)
         /\ IF posted'
            THEN /\ stateFile' = save_state(stateFile, next[1], next[2], write)
                 /\ saved' = (write = "ok")
                 /\ success' = TRUE
                 /\ run_log' = Append(run_log, Step("posted_to_telegram", next[1], next[2]))
                 /\ calls' = calls \cup {"post_to_telegram", "save_state", "save_run_log"}
            ELSE /\ run_log' = Append(run_log, Step("telegram_post_failed", 0, 0))
                 /\ calls' = calls \cup {"post_to_telegram", "save_run_log"}
                 /\ UNCHANGED <<stateFile, saved, success>>
    /\ http' = http \cup (IF configured THEN {"sendMessage"} ELSE {})
    /\ pc' = "done"
    /\ UNCHANGED <<config, runs, current, message, verse_info, surah_info, next,
                   fileAtStart, prev>>

\* The process exits; the scheduler starts the next invocation later.
Exit ==
    /\ pc \in {"done", "crashed"}
    /\ pc' = "idle"
    /\ prev' = IF pc = "done" /\ posted /\ saved /\ verse_info # None
               THEN [posted |-> posted, saved |-> saved, message |-> message,
                     verse_info |-> verse_info, surah_info |-> surah_info,
                     next |-> next]
               ELSE NoRun
    /\ current' = NoPair
    /\ message' = None
    /\ verse_info' = None
    /\ surah_info' = None
    /\ next' = NoPair
    /\ posted' = FALSE
    /\ saved' = FALSE
    /\ run_log' = <<>>
    /\ success' = FALSE
    /\ calls' = {}
    /\ http' = {}
    /\ fileAtStart' = stateFile
    /\ UNCHANGED <<config, stateFile, runs>>

Next ==
    \/ LoadState
    \/ CheckOverride
    \/ ComputeNext
    \/ FetchVerse
    \/ Publish
    \/ Exit

Spec == Init /\ [][Next]_vars

(* ---------------- compute_next_verse on its own ---------------- *)
\* Every surah, current ayahs 0..MaxAyah and every lookup answer.
InitCalc ==
    /\ configured = TRUE
    /\ HAS_GEMINI = FALSE
    /\ gemini_client = FALSE
    /\ stateFile = FileAbsent
    /\ fileAtStart = FileAbsent
    /\ pc = "calc"
    /\ runs = 0
    /\ prev = NoRun
    /\ current \in (1..NumSurahs) \X (0..MaxAyah)
    /\ surah_info \in SurahInfos
    /\ message = None
    /\ verse_info = None
    /\ next = NoPair
    /\ posted = FALSE
    /\ saved = FALSE
    /\ run_log = <<>>
    /\ success = FALSE
    /\ calls = {}
    /\ http = {}

Calc ==
    /\ pc = "calc"
    /\ next' = compute_next_verse(current[1], current[2], surah_info)
    /\ calls' = calls \cup {"compute_next_verse", "get_surah_info"}
    /\ pc' = "calc_done"
    /\ UNCHANGED <<config, stateFile, runs, current, message, verse_info,
                   surah_info, posted, saved, run_log, success, http,
                   fileAtStart, prev>>

CalcSpec == InitCalc /\ [][Calc]_vars

(* ================= properties ================= *)
Logged(name) == \E i \in 1..Len(run_log) : run_log[i].step = name
Computed == pc \in {"fetch", "publish", "done"}
TelegramEndpoints == {"getUpdates", "getFile", "sendMessage"}

\* The position a state file stands for: its record, (1, 0) for what is
\* absent or cannot be read.
StoredPosition(file) ==
    IF file.kind = "object"
    THEN <<IntOf(file.last_surah, 1), IntOf(file.last_ayah, 0)>>
    ELSE <<1, 0>>

\* C1: when fetch_verse fails the run ends without calling post_to_telegram
\* or save_state, and the state file is what it was when the run began.
C1_FetchFailureLeavesState ==
    (pc = "done" /\ Logged("fetch_verse_failed")) =>
        /\ "post_to_telegram" \notin calls
        /\ "save_state" \notin calls
        /\ "sendMessage" \notin http
        /\ stateFile = fileAtStart
        /\ ~success

C1_Witness ==
    /\ pc = "done"
    /\ Logged("fetch_verse_failed")
    /\ verse_info = <<2, 1>>
    /\ fileAtStart = FileRecord(114, 2)

\* C2: when the fetch succeeded and post_to_telegram returned false,
\* save_state is not called and the state file is what it was when the run
\* began.
C2_PostFailureLeavesState ==
    (pc = "done" /\ Logged("prepared_message") /\ ~posted) =>
        /\ "save_state" \notin calls
        /\ ~saved
        /\ stateFile = fileAtStart
        /\ ~success

C2_Witness ==
    /\ pc = "done"
    /\ configured
    /\ Logged("telegram_post_failed")
    /\ "sendMessage" \in http
    /\ fileAtStart = FileRecord(2, 1)

\* C3: the state file changes only in a run that published, and a run that
\* reports success has persisted exactly the published (next_surah, next_ayah).
C3_SuccessPersisted ==
    pc = "done" =>
        /\ (success => stateFile = FileRecord(next[1], next[2]))
        /\ (~success => stateFile = fileAtStart)

\* C4: with an ayah count T available, compute_next_verse(surah, ayah) is
\* (surah, ayah + 1) when ayah < T and otherwise the first ayah of the next
\* surah, surah 114 being followed by surah 1.
C4_NextVerse ==
    pc = "calc_done" =>
        \A sh \in InfoShapes, T \in Totals :
            surah_info = <<MakeInfo(sh, T)>> =>
                next = IF current[2] < T
                       THEN <<current[1], current[2] + 1>>
                       ELSE <<IF current[1] = 114 THEN 1 ELSE current[1] + 1, 1>>

C4_Witness ==
    /\ pc = "calc_done"
    /\ current = <<114, 2>>
    /\ surah_info = <<MakeInfo("ayahs", 2)>>
    /\ next = <<1, 1>>

C6_OverrideValidated ==
    verse_info # None =>
        /\ 1 <= verse_info[1]
        /\ verse_info[1] <= 114
        /\ verse_info[2] >= 1

\* C7: the verse computed, fetched and published in a run is
\* compute_next_verse of the resolved reference when there is one, and of
\* the stored position otherwise.
C7_OverrideReplacesPosition ==
    Computed =>
        LET base == IF verse_info # None THEN verse_info
                    ELSE StoredPosition(fileAtStart)
        IN /\ next = compute_next_verse(base[1], base[2], surah_info)
           /\ posted =>
                run_log[Len(run_log)] = Step("posted_to_telegram", next[1], next[2])

C7_Witness ==
    /\ pc = "done"
    /\ posted
    /\ verse_info = <<2, 1>>
    /\ fileAtStart = FileRecord(114, 2)
    /\ next = <<2, 2>>

C7_WitnessNoOverride ==
    /\ pc = "done"
    /\ posted
    /\ verse_info = None
    /\ fileAtStart = FileRecord(2, 1)
    /\ next = <<2, 2>>

\* C8: whatever the condition of the state file, no exception propagates out
\* of run_once, and a file that cannot be read gives the position (1, 0).
C8_LoadNonFatal ==
    /\ pc # "crashed"
    /\ (pc \notin {"idle", "crashed"} /\ fileAtStart.kind # "object") =>
          run_log[1] = Step("loaded_state", 1, 0)

\* C9: a run that starts from an absent state file or a record with
\* last_surah in 1..114 and last_ayah >= 0 leaves a record, if any, with
\* last_surah in 1..114 and last_ayah >= 0.
InRange(file) ==
    file.kind = "object" =>
        /\ file.last_surah.t = "int"
        /\ file.last_ayah.t = "int"
        /\ file.last_surah.v \in 1..114
        /\ file.last_ayah.v >= 0

C9_RecordInRange ==
    (fileAtStart.kind \in {"absent", "object"} /\ InRange(fileAtStart)) =>
        InRange(stateFile)

\* C10: a run that sees the message the previous run applied applies it
\* again: the same reference replaces the position, and with the same ayah
\* count the same verse is computed and published and the same state saved.
C10_NoDeduplication ==
    (pc \in {"compute", "fetch", "publish", "done"}
       /\ prev # NoRun /\ message = prev.message) =>
        /\ (message[1].kind \in {"text", "caption"}
              /\ parse_verse_locally(message[1].text) # None) =>
                 verse_info = prev.verse_info
        /\ verse_info = prev.verse_info =>
              /\ current = prev.verse_info
              /\ (Computed /\ surah_info = prev.surah_info) =>
                    /\ next = prev.next
                    /\ (pc = "done" /\ saved) => stateFile = fileAtStart

C10_Witness ==
    /\ pc = "done"
    /\ prev # NoRun
    /\ message = prev.message
    /\ message[1].kind = "text"
    /\ verse_info = prev.verse_info
    /\ surah_info = prev.surah_info
    /\ posted
    /\ saved
    /\ stateFile = FileRecord(prev.next[1], prev.next[2])

====
